---- MODULE Spec2Model ----
(***************************************************************************)
(* Titan core engine: the 5-card rank evaluator (evaluator.rs), the Omaha  *)
(* 2+3 enumerator and the Monte-Carlo equity loop (omaha.rs), and the      *)
(* strategy function and solve_state (solver.rs) and the exported entry    *)
(* points (lib.rs), as state machines over the process-wide lookup tables  *)
(* and the calls' inputs, locals and results.                              *)
(***************************************************************************)
EXTENDS Integers, Sequences, FiniteSets, TLC

VARIABLES
    INIT,           \* state of the std::sync::Once guarding the tables
    builds,         \* how many times the closure of INIT.call_once has been entered
    pc,             \* init_tables: where each thread calling it stands
    returns,        \* init_tables: how many calls of each thread have returned
    FLUSH_TABLE,    \* static mut FLUSH_TABLE: [u16; 8192]
    UNIQUE5_TABLE,  \* static mut UNIQUE5_TABLE: [u16; 8192]
    calls,          \* evaluate_5cards: the 5-card hands the caller evaluates, in order
    ranks,          \* evaluate_5cards: what the calls made so far returned
    omaha,          \* evaluate_omaha: the caller's arguments [hand, board]
    evals,          \* evaluate_omaha: the 5-card sets it handed to evaluate_5cards
    best,           \* evaluate_omaha: what it returned, << >> before it has
    mc,             \* monte_carlo_equity: the caller's arguments
    run,            \* monte_carlo_equity: its locals [pc, deck, wins, ties, iter, k, out]
    equity,         \* monte_carlo_equity: what it returned, << >> before it has
    rng,            \* monte_carlo_equity: its local generator
    xoshiro,        \* the outputs of Xoshiro256++ under seed 42 seen so far, in order
    script,         \* the host's calls of the exported entry points, in order
    results,        \* what the host's completed calls returned
    job,            \* the entry point the host is in, "none" between calls
    sp,             \* compute_strategy: the caller's arguments
    strategy        \* compute_strategy: what it returned, << >> before it has

tableVars == << INIT, FLUSH_TABLE, UNIQUE5_TABLE, builds >>
onceVars == << pc, returns >>
evalVars == << calls, ranks >>
omahaVars == << omaha, evals, best >>
mcVars == << mc, run, equity, rng, xoshiro >>
stratVars == << sp, strategy >>
hostVars == << script, results, job >>
vars == << tableVars, onceVars, evalVars, omahaVars, mcVars, stratVars, hostVars >>

----------------------------------------------------------------------------
(* Machine arithmetic *)

RECURSIVE Pow2(_)
Pow2(n) == IF n = 0 THEN 1 ELSE 2 * Pow2(n - 1)

\* x | y on unsigned values
RECURSIVE BitOr(_, _)
BitOr(x, y) ==
    IF x = 0 THEN y
    ELSE IF y = 0 THEN x
    ELSE (IF x % 2 = 1 \/ y % 2 = 1 THEN 1 ELSE 0) + 2 * BitOr(x \div 2, y \div 2)

\* u32::count_ones
RECURSIVE count_ones(_)
count_ones(x) == IF x = 0 THEN 0 ELSE (x % 2) + count_ones(x \div 2)

U16 == 65536
U16_MAX == 65535
TABLE_SIZE == 8192

----------------------------------------------------------------------------
(* evaluator.rs: constants *)

RANK_PRIMES == << 2, 3, 5, 7, 11, 13, 17, 19, 23, 29, 31, 37, 41 >>

\* RANK_BITS[r] = 1 << r; as RANK_PRIMES, indexed here from 1
RANK_BITS == << 1, 2, 4, 8, 16, 32, 64, 128, 256, 512, 1024, 2048, 4096 >>

\* the ten straight bitmasks, A-K-Q-J-T first, the wheel last
straights == << 7936, 3968, 1984, 992, 496, 248, 124, 62, 31, 4111 >>

straight_set == {straights[n] : n \in 1..Len(straights)}

\* A table [u16; 8192] is kept as the function of its nonzero entries: an
\* index outside the domain holds 0, as the zeroed static does.
ZeroTable == << >>

TableGet(T, k) == IF k \in DOMAIN T THEN T[k] ELSE 0

----------------------------------------------------------------------------
(* evaluator.rs: table generation *)

\* the bitmasks visited by the loop nest
\*   for a in (4..13).rev() for b in (3..a).rev() ... for e in (0..d).rev()
\* in visiting order; Nest(hi, depth, acc) runs the innermost `depth` loops
\* with the enclosing index hi and the bits acc chosen so far
RECURSIVE Nest(_, _, _)
Nest(hi, depth, acc) ==
    IF depth = 0 THEN << acc >>
    ELSE LET lo == depth - 1
             RECURSIVE Down(_)
             Down(x) == IF x < lo THEN << >>
                        ELSE Nest(x, depth - 1, BitOr(acc, Pow2(x))) \o Down(x - 1)
         IN  Down(hi - 1)

LoopBits == Nest(13, 5, 0)

NotStraight(bits) == bits \notin straight_set

\* the table writes of `for (n, bits) in keys: TABLE[bits & 0x1FFF] = base + n`
\* (n from 0), as the final value of every index written: the last write wins
Writes(keys, base) ==
    [k \in {keys[n] % TABLE_SIZE : n \in DOMAIN keys} |->
        LET hits == {n \in DOMAIN keys : keys[n] % TABLE_SIZE = k}
            last == CHOOSE n \in hits : \A m \in hits : m <= n
        IN  (base + (last - 1)) % U16]

\* table T after the writes W
Overlay(T, W) ==
    [k \in (DOMAIN T) \cup (DOMAIN W) |-> IF k \in DOMAIN W THEN W[k] ELSE T[k]]

flush_hands == SelectSeq(LoopBits, NotStraight)

\* rank starts at 1 and is incremented once per straight; flush_start = rank
flush_start == 1 + Len(straights)

\* generate_flush_table: the straight flushes take ranks 1.., the other
\* flushes the ranks from flush_start on
flush_straight_writes == Writes(straights, 1)
flush_hand_writes == Writes(flush_hands, flush_start)

generate_flush_table(T) ==
    Overlay(Overlay(T, flush_straight_writes), flush_hand_writes)

\* generate_unique5_table: straights from 1600; hc_rank starts at 6186 and is
\* incremented once per mask that is not a straight
unique5_straight_writes == Writes(straights, 1600)
\* hc_rank starts one too high
unique5_hc_writes_late == Writes(SelectSeq(LoopBits, NotStraight), 6187)

unique5_hc_writes == Writes(SelectSeq(LoopBits, NotStraight), 6186)

generate_unique5_table(T) ==
    Overlay(Overlay(T, unique5_straight_writes), unique5_hc_writes)

\* the tables the closure of init_tables builds from the zeroed statics
FlushBuilt == generate_flush_table(ZeroTable)
Unique5Built == generate_unique5_table(ZeroTable)

----------------------------------------------------------------------------
(* evaluator.rs: the paired-hand classifier *)

\* the inner `while remaining % p == 0` loop: <<count, remaining>>
RECURSIVE DivideOut(_, _, _)
DivideOut(remaining, p, count) ==
    IF remaining % p = 0 THEN DivideOut(remaining \div p, p, count + 1)
    ELSE << count, remaining >>

\* the outer loop over RANK_PRIMES from index i (1-based): the counts from i on
RECURSIVE FactorFrom(_, _)
FactorFrom(remaining, i) ==
    IF i > Len(RANK_PRIMES) THEN << >>
    ELSE LET d == DivideOut(remaining, RANK_PRIMES[i], 0)
         IN  << d[1] >> \o FactorFrom(d[2], i + 1)

\* insert x into a descending sequence
RECURSIVE InsertDesc(_, _)
InsertDesc(x, s) ==
    IF s = << >> THEN << x >>
    ELSE IF x >= Head(s) THEN << x >> \o s
    ELSE << Head(s) >> \o InsertDesc(x, Tail(s))

RECURSIVE SortDesc(_)
SortDesc(s) == IF s = << >> THEN << >> ELSE InsertDesc(Head(s), SortDesc(Tail(s)))

IsPositive(c) == c > 0

\* counts.iter().position(|&c| c == v).unwrap_or(0), as a rank index from 0
first_position(counts, v) ==
    LET hits == {i \in 1..Len(counts) : counts[i] = v}
    IN  IF hits = {} THEN 0
        ELSE (CHOOSE i \in hits : \A j \in hits : i <= j) - 1

\* pairs.iter().copied().max().unwrap_or(0) over the ranks counted twice
max_pair(counts) ==
    LET pairs == {i \in 1..Len(counts) : counts[i] = 2}
    IN  IF pairs = {} THEN 0
        ELSE (CHOOSE i \in pairs : \A j \in pairs : i >= j) - 1

classify_by_counts(prime_product) ==
    LET counts        == FactorFrom(prime_product, 1)
        sorted_counts == SortDesc(SelectSeq(counts, IsPositive))
    IN  CASE sorted_counts = << 4, 1 >> ->
               (11 + (12 - first_position(counts, 4)) * 12) % U16
          [] sorted_counts = << 3, 2 >> ->
               (167 + (12 - first_position(counts, 3)) * 12 + (12 - first_position(counts, 2))) % U16
          [] sorted_counts = << 3, 1, 1 >> ->
               (1610 + (12 - first_position(counts, 3)) * 66) % U16
          [] sorted_counts = << 2, 2, 1 >> ->
               (2468 + (12 - max_pair(counts)) * 66) % U16
          [] sorted_counts = << 2, 1, 1, 1 >> ->
               (3326 + (12 - first_position(counts, 2)) * 220) % U16
          [] OTHER -> 7000

lookup_prime_product(product) == classify_by_counts(product)

----------------------------------------------------------------------------
(* evaluator.rs: the evaluator *)

card_rank(c) == c \div 4
card_suit(c) == c % 4

is_flush(c0, c1, c2, c3, c4) ==
    /\ card_suit(c0) = card_suit(c1)
    /\ card_suit(c1) = card_suit(c2)
    /\ card_suit(c2) = card_suit(c3)
    /\ card_suit(c3) = card_suit(c4)

\* evaluate_5cards reading the tables F (flush) and U (unique5)
evaluate_with(F, U, c0, c1, c2, c3, c4) ==
    LET r0 == card_rank(c0)
        r1 == card_rank(c1)
        r2 == card_rank(c2)
        r3 == card_rank(c3)
        r4 == card_rank(c4)
        rank_bits == BitOr(BitOr(BitOr(BitOr(RANK_BITS[r0 + 1], RANK_BITS[r1 + 1]),
                                       RANK_BITS[r2 + 1]), RANK_BITS[r3 + 1]), RANK_BITS[r4 + 1])
        rank_key  == rank_bits
    IN  IF is_flush(c0, c1, c2, c3, c4) THEN TableGet(F, rank_key % TABLE_SIZE)
        ELSE IF count_ones(rank_bits) = 5 THEN TableGet(U, rank_key % TABLE_SIZE)
        ELSE lookup_prime_product(RANK_PRIMES[r0 + 1] * RANK_PRIMES[r1 + 1]
                 * RANK_PRIMES[r2 + 1] * RANK_PRIMES[r3 + 1] * RANK_PRIMES[r4 + 1])

evaluate_5cards(c0, c1, c2, c3, c4) ==
    evaluate_with(FLUSH_TABLE, UNIQUE5_TABLE, c0, c1, c2, c3, c4)

----------------------------------------------------------------------------
(* omaha.rs: evaluate_omaha *)

\* the index pairs of `for i in 0..n { for j in i..n`
RECURSIVE pair_loop_from_i(_, _)
pair_loop_from_i(i, n) ==
    IF i >= n THEN << >>
    ELSE [m \in 1..(n - i) |-> << i, i + m - 1 >>] \o pair_loop_from_i(i + 1, n)

\* the index pairs (i, j) of `for i in 0..n { for j in (i + 1)..n`, in loop order
RECURSIVE pair_loop(_, _)
pair_loop(i, n) ==
    IF i >= n THEN << >>
    ELSE [m \in 1..(n - 1 - i) |-> << i, i + m >>] \o pair_loop(i + 1, n)

\* (b, c) of `for b in (a + 1)..n { for c in (b + 1)..n` for a fixed a, from b on
RECURSIVE triple_tail(_, _, _)
triple_tail(a, b, n) ==
    IF b >= n THEN << >>
    ELSE [m \in 1..(n - 1 - b) |-> << a, b, b + m >>] \o triple_tail(a, b + 1, n)

\* the index triples (a, b, c) of the three board loops, in loop order
RECURSIVE triple_loop(_, _)
triple_loop(a, n) ==
    IF a >= n THEN << >>
    ELSE triple_tail(a, a + 1, n) \o triple_loop(a + 1, n)

\* the calls made for the hand pairs from the p-th on (P, T: the index loops)
RECURSIVE calls_from(_, _, _, _, _)
calls_from(hand, board, P, T, p) ==
    IF p > Len(P) THEN << >>
    ELSE [n \in 1..Len(T) |->
             << hand[P[p][1] + 1], hand[P[p][2] + 1],
                board[T[n][1] + 1], board[T[n][2] + 1], board[T[n][3] + 1] >>]
         \o calls_from(hand, board, P, T, p + 1)

\* the arguments (h0, h1, b0, b1, b2) of the calls of evaluate_5cards that
\* evaluate_omaha makes, in the order it makes them
omaha_calls(hand, board) ==
    calls_from(hand, board, pair_loop(0, Len(hand)), triple_loop(0, Len(board)), 1)

\* the calls of evaluate_5cards that evaluate_omaha makes, in order, each with
\* the rank it returns under the tables F and U
omaha_trace(F, U, hand, board) ==
    LET cs == omaha_calls(hand, board)
    IN  [k \in DOMAIN cs |->
            [cards |-> cs[k],
             rank  |-> evaluate_with(F, U, cs[k][1], cs[k][2], cs[k][3], cs[k][4], cs[k][5])]]

\* `if rank < best { best = rank }` over the calls lo..hi, in order, from best b
\* (the calls lo..mid are completed before the calls mid+1..hi start)
RECURSIVE best_over(_, _, _, _)
best_over(t, lo, hi, b) ==
    IF lo > hi THEN b
    ELSE IF lo = hi
         THEN LET rank == t[lo].rank
              IN  IF rank < b THEN rank ELSE b
         ELSE LET mid  == (lo + hi) \div 2
                  left == best_over(t, lo, mid, b)
              IN  IF left <= U16_MAX THEN best_over(t, mid + 1, hi, left)
                  ELSE U16_MAX

\* best, from u16::MAX, after all the calls of the trace t
best_of(t) == best_over(t, 1, Len(t), U16_MAX)

evaluate_omaha_with(F, U, hand, board) == best_of(omaha_trace(F, U, hand, board))

evaluate_omaha(hand, board) ==
    evaluate_omaha_with(FLUSH_TABLE, UNIQUE5_TABLE, hand, board)

----------------------------------------------------------------------------
(* omaha.rs: monte_carlo_equity *)

DECK_SIZE == 52

Range(s) == {s[i] : i \in DOMAIN s}

\* the deck as the call before left it, if it holds the same cards
RECURSIVE deck_left_over(_, _)
deck_left_over(used, i) ==
    IF i = 0 /\ Range(run.deck) = (0..(DECK_SIZE - 1)) \ used THEN run.deck
    ELSE IF i >= DECK_SIZE THEN << >>
    ELSE (IF i \in used THEN << >> ELSE << i >>) \o deck_left_over(used, i + 1)

\* the ids 0..51 not marked in `used`, ascending
RECURSIVE build_deck(_, _)
build_deck(used, i) ==
    IF i >= DECK_SIZE THEN << >>
    ELSE (IF i \in used THEN << >> ELSE << i >>) \o build_deck(used, i + 1)

\* used[c as usize] is in bounds for every card marked
used_in_bounds(used) == \A c \in used : c < DECK_SIZE

board_needed(m) == 5 - Len(m.board_cards)
villain_cards_needed(m) == m.opponents * m.hand_size
total_needed(m) == board_needed(m) + villain_cards_needed(m)

Min(a, b) == IF a < b THEN a ELSE b

\* deck.len() < total_needed; a total below 0 is one that wrapped to above 2^63
deck_too_small(m, deck) == total_needed(m) < 0 \/ Len(deck) < total_needed(m)

\* Xoshiro256PlusPlus::seed_from_u64(seed): a generator that has drawn nothing
seed_from_u64(seed) == [seed |-> seed, drawn |-> 0]

\* the raw values the generator g may give next: the one seen at this point
\* of the stream before, or any value if the stream was never drawn this far
next_raw(g, stream, values) ==
    IF g.drawn < Len(stream) THEN {stream[g.drawn + 1]} ELSE values

\* the stream once g has given raw
drawn_stream(g, stream, raw) ==
    IF g.drawn < Len(stream) THEN stream ELSE Append(stream, raw)

\* rng.gen_range(lo..hi) on the raw value the generator gives
gen_range(raw, lo, hi) == lo + (raw % (hi - lo))

\* a swap that copies deck[swap_idx] to deck[k] and loses deck[k]
swap_overwrites(deck, k, idx) == [deck EXCEPT ![k + 1] = deck[idx + 1]]

\* deck.swap(k, swap_idx), indices from 0
swap(deck, k, idx) == [deck EXCEPT ![k + 1] = deck[idx + 1], ![idx + 1] = deck[k + 1]]

\* full_board: the known board cards, then deck[0..board_needed)
full_board(m, deck) ==
    [i \in 1..5 |-> IF i <= Len(m.board_cards) THEN m.board_cards[i]
                    ELSE deck[i - Len(m.board_cards)]]

\* the loop over the opponents where a tie seen before hero is beaten stays
RECURSIVE villain_loop_keeps_tie(_, _, _, _, _, _, _, _, _)
villain_loop_keeps_tie(F, U, m, deck, fb, hero_rank, o, hero_wins, is_tie) ==
    IF o >= m.opponents THEN << hero_wins, is_tie >>
    ELSE LET offset       == board_needed(m) + o * m.hand_size
             villain_hand == SubSeq(deck, offset + 1, offset + m.hand_size)
             villain_rank == evaluate_omaha_with(F, U, villain_hand, fb)
         IN  IF villain_rank < hero_rank THEN << FALSE, is_tie >>
             ELSE villain_loop_keeps_tie(F, U, m, deck, fb, hero_rank, o + 1, hero_wins,
                                         is_tie \/ villain_rank = hero_rank)

\* the loop over the opponents from the o-th on (o from 0), with its break:
\* << hero_wins, is_tie >>
RECURSIVE villain_loop(_, _, _, _, _, _, _, _, _)
villain_loop(F, U, m, deck, fb, hero_rank, o, hero_wins, is_tie) ==
    IF o >= m.opponents THEN << hero_wins, is_tie >>
    ELSE LET offset       == board_needed(m) + o * m.hand_size
             villain_hand == SubSeq(deck, offset + 1, offset + m.hand_size)
             villain_rank == evaluate_omaha_with(F, U, villain_hand, fb)
         IN  IF villain_rank < hero_rank THEN << FALSE, FALSE >>
             ELSE IF villain_rank = hero_rank
                  THEN villain_loop(F, U, m, deck, fb, hero_rank, o + 1, hero_wins, TRUE)
                  ELSE villain_loop(F, U, m, deck, fb, hero_rank, o + 1, hero_wins, is_tie)

\* one iteration after its shuffle: << hero_wins, is_tie >>
showdown(F, U, m, deck) ==
    LET fb        == full_board(m, deck)
        hero_rank == evaluate_omaha_with(F, U, m.hero_cards, fb)
    IN  villain_loop(F, U, m, deck, fb, hero_rank, 0, TRUE, FALSE)

\* an f64 result as the fraction num / den; den = 0 is the NaN of 0.0 / 0.0
Half == [num |-> 1, den |-> 2]

\* (wins as f64 + ties as f64 * 0.5) / sims as f64
equity_of(wins, ties, sims) ==
    IF sims = 0 /\ wins = 0 /\ ties = 0 THEN [num |-> 0, den |-> 0]
    ELSE [num |-> 2 * wins + ties, den |-> 2 * sims]

----------------------------------------------------------------------------
(* solver.rs: compute_strategy *)

\* an argument a = [equity, eden, spr, sden, street, position, opponents] has
\* the f64 equity a.equity / a.eden and the f64 spr a.spr / a.sden
EquitySteps == 100
SprSteps == 2

\* in hundredths
street_mult(street) ==
    CASE street = 0 -> 85
      [] street = 1 -> 100
      [] street = 2 -> 110
      [] street = 3 -> 125
      [] OTHER -> 100

\* in hundredths
pos_bonus(position) ==
    CASE position = 0 -> 6
      [] position = 5 -> 4
      [] position = 4 -> 2
      [] OTHER -> 0

\* in hundredths
multi_way_penalty(opponents) == IF opponents > 1 THEN 4 * (opponents - 1) ELSE 0

clamp(x, lo, hi) == IF x < lo THEN lo ELSE IF x > hi THEN hi ELSE x

\* adj_equity in units of 1 / (100 * a.eden)
adj_equity(a) ==
    clamp(a.equity * 100 + (pos_bonus(a.position) - multi_way_penalty(a.opponents)) * a.eden,
          0, 100 * a.eden)

\* adj_equity > t / 100 (never, for the NaN of a.eden = 0)
AdjAbove(a, t) == adj_equity(a) > t * a.eden

\* the bucket's frequencies [fold, check, call, raise, allin] in 1/10000
bucket(a) ==
    LET m == street_mult(a.street)
    IN  CASE AdjAbove(a, 75) -> << 0, 0, 1500, 75 * m, 1000 >>
          [] ~AdjAbove(a, 75) /\ AdjAbove(a, 60) -> << 0, 1000, 4000, 50 * m, 0 >>
          [] ~AdjAbove(a, 60) /\ AdjAbove(a, 45) -> << 1000, 3000, 4500, 15 * m, 0 >>
          [] ~AdjAbove(a, 45) /\ AdjAbove(a, 30) -> << 3500, 4000, 1500, 10 * m, 0 >>
          [] ~AdjAbove(a, 30) /\ AdjAbove(a, 18) -> << 5500, 3500, 0, 10 * m, 0 >>
          [] OTHER -> << 8500, 1000, 0, 500, 0 >>

Sum5(f) == f[1] + f[2] + f[3] + f[4] + f[5]

\* the frequencies left as the bucket gives them
unnormalized(f) == [num |-> f, den |-> 10000]

\* `if sum > 0.0 { *f /= sum }`: the frequencies become num[i] / den
normalize(f) ==
    IF Sum5(f) > 0 THEN [num |-> f, den |-> Sum5(f)]
    ELSE [num |-> f, den |-> 10000]

\* min_by in the place of max_by: the first of the least entries
min_by(f) ==
    (CHOOSE i \in 1..5 :
        /\ \A j \in 1..5 : f[i] <= f[j]
        /\ \A j \in 1..(i - 1) : f[i] < f[j]) - 1

\* iter().enumerate().max_by(partial_cmp): the last of the greatest entries,
\* as an action id from 0
max_by(f) ==
    (CHOOSE i \in 1..5 :
        /\ \A j \in 1..5 : f[j] <= f[i]
        /\ \A j \in (i + 1)..5 : f[j] < f[i]) - 1

\* sizing in hundredths
sizing(a) ==
    CASE a.street = 0 -> 300
      [] a.street = 1 -> 67
      [] a.street = 2 -> 75
      [] a.street = 3 -> IF AdjAbove(a, 70) THEN 100 ELSE 50
      [] OTHER -> 67

\* the size without .min(99999)
raise_size_uncapped(a) == (sizing(a) * a.spr * 100) \div (100 * a.sden)

\* ((sizing * (spr * 100.0)) as u32).min(99999)
raise_size(a) == Min((sizing(a) * a.spr * 100) \div (100 * a.sden), 99999)

raise_amount(a, fr) ==
    IF fr.num[4] * 10 > fr.den \/ fr.num[5] * 10 > fr.den
    THEN (IF a.street = 0 THEN 300 ELSE raise_size(a))
    ELSE 0

\* the standard strategy regions alone
standard_regions(a) ==
    LET fr == normalize(bucket(a))
    IN  [action |-> max_by(fr.num), freq |-> fr, raise_amount |-> raise_amount(a, fr)]

\* the commitment branch is never taken
without_commitment(a) == standard_regions(a)

compute_strategy(a) ==
    IF a.spr < 2 * a.sden
    THEN IF AdjAbove(a, 40)
         THEN [action |-> 4, freq |-> [num |-> << 0, 0, 0, 1000, 9000 >>, den |-> 10000],
               raise_amount |-> 0]
         ELSE [action |-> 0, freq |-> [num |-> << 8500, 0, 1500, 0, 0 >>, den |-> 10000],
               raise_amount |-> 0]
    ELSE standard_regions(a)

----------------------------------------------------------------------------
(* solver.rs: solve_state *)

Max(a, b) == IF a > b THEN a ELSE b

\* x as i32 for the f64 x = n / d: towards zero, saturating, 0 for the NaN d = 0
as_i32(n, d) ==
    IF d = 0 THEN 0
    ELSE LET t == IF n >= 0 THEN n \div d ELSE -((-n) \div d)
         IN  clamp(t, -2147483647 - 1, 2147483647)

\* ev_call is A / (2 * eq.den) and ev_raise is B / eq.den
compute_ev(eq, pot, fr, raise) ==
    LET A == pot * (3 * eq.num - eq.den)
        B == eq.num * pot + (2 * eq.num - eq.den) * raise
    IN  as_i32(5 * fr.num[2] * A + 10 * fr.num[3] * A + 20 * fr.num[4] * B + 24 * fr.num[5] * B,
               20 * eq.den * fr.den)

\* in hundredths
board_confidence(board_len) ==
    CASE board_len = 0 -> 30
      [] board_len = 3 -> 60
      [] board_len = 4 -> 80
      [] board_len = 5 -> 95
      [] OTHER -> 50

\* the f64 confidence as num / den
compute_confidence(sims, board_len, opponents) ==
    [num |-> clamp(Min(sims, 10000) * board_confidence(board_len) * (100 - Min(5 * opponents, 30)),
                   10000000, 99000000),
     den |-> 100000000]

hand_size_of(format) == IF format = 1 THEN 6 ELSE 5

sims_of(format, street) ==
    IF format = 1 THEN 3000
    ELSE IF street = 3 THEN 8000
    ELSE IF street = 2 THEN 5000
    ELSE 4000

\* (params.num_players.saturating_sub(1)).max(1)
opponents_of(num_players) == Max(Max(num_players - 1, 0), 1)

\* one iteration of the model's loop stands for SimsScale of the program's
SimsScale == 3000

\* the arguments solve_state hands to monte_carlo_equity
solve_equity_args(params) ==
    [hero_cards |-> params.hero_cards, board_cards |-> params.board_cards,
     dead_cards |-> params.dead_cards,
     sims |-> sims_of(params.format, params.street) \div SimsScale,
     opponents |-> opponents_of(params.num_players),
     hand_size |-> hand_size_of(params.format)]

\* solve_state from the equity eq on: steps 2 to 5 and the SolveResult
solve_result(params, eq) ==
    LET pot       == Max(params.pot_bb100, 1)
        opponents == opponents_of(params.num_players)
        st        == compute_strategy([equity |-> eq.num, eden |-> eq.den,
                                       spr |-> params.hero_stack, sden |-> pot,
                                       street |-> params.street, position |-> params.position,
                                       opponents |-> opponents])
    IN  [action |-> st.action,
         raise_amount_bb100 |-> st.raise_amount,
         equity |-> eq,
         ev_bb100 |-> compute_ev(eq, pot, st.freq, st.raise_amount),
         freq |-> st.freq,
         confidence |-> compute_confidence(sims_of(params.format, params.street),
                                           Len(params.board_cards), opponents)]

\* lib.rs equity: the arguments it hands to monte_carlo_equity
equity_args(a) ==
    [hero_cards |-> a.hero_cards, board_cards |-> a.board_cards, dead_cards |-> << >>,
     sims |-> a.sims, opponents |-> 1, hand_size |-> Len(a.hero_cards)]

----------------------------------------------------------------------------
(* Inputs of evaluate_5cards *)

\* suit offsets tried for each rank multiset
SuitShifts == 1

\* the rank multisets of five cards, highest first; no rank five times
RankTuples ==
    {t \in [1..5 -> 0..12] :
        /\ \A i \in 1..4 : t[i] >= t[i + 1]
        /\ t[1] # t[5]}

\* step 0 puts the five cards in suit p; step 1 gives the i-th card suit p+i-1
HandOf(t, p, step) == [i \in 1..5 |-> 4 * t[i] + ((p + step * (i - 1)) % 4)]

Distinct(h) == \A i, j \in DOMAIN h : i # j => h[i] # h[j]

Hands ==
    {h \in {HandOf(t, p, step) : t \in RankTuples, p \in 0..(SuitShifts - 1), step \in 0..1} :
        Distinct(h)}

----------------------------------------------------------------------------
(* Inputs of evaluate_omaha *)

RECURSIVE SubSeqs(_)
SubSeqs(s) ==
    IF s = << >> THEN {<< >>}
    ELSE LET rest == SubSeqs(Tail(s))
         IN  rest \cup {<< Head(s) >> \o t : t \in rest}

\* hole cards A♣ A♦ A♥ Q♣ J♣ T♣ and board cards A♥ A♠ K♠ K♣ J♥ 9♥ 7♣
HandPool == << 48, 49, 50, 40, 36, 32 >>
BoardPool == << 50, 51, 47, 44, 38, 30, 20 >>

OmahaInputs ==
    {[hand |-> h, board |-> b] : h \in SubSeqs(HandPool), b \in SubSeqs(BoardPool)}

OmahaArgs ==
    {a \in OmahaInputs :
        /\ Len(a.hand) \in 4..6
        /\ Len(a.board) = 5
        /\ Range(a.hand) \cap Range(a.board) = {}}

----------------------------------------------------------------------------
(* Inputs of monte_carlo_equity *)

MaxSims == 2
MaxOpponents == 2

\* the raw values a generator gives are 0..RngValues-1
RngValues == 2
RawValues == 0..(RngValues - 1)

\* the cards left in the deck once hero, board and dead cards are out
\* (K♦ J♦ Q♦ 2♣ 3♦), hero's Q♣ J♣ 2♦ 2♥ and the board A♥ K♣ J♥ 9♥ 7♣
Residual == << 45, 37, 41, 0, 5 >>
HeroCards == << 40, 36, 1, 2 >>
BoardCards == << 50, 44, 38, 30, 20 >>

\* every id outside the set keep, ascending
dead_for(keep) == build_deck(keep, 0)

\* hero holds the first hn of HeroCards, the board shows the first bn of
\* BoardCards, and every card outside these and Residual is dead
EquityCall(hn, bn, n, o) ==
    [hero_cards |-> SubSeq(HeroCards, 1, hn), board_cards |-> SubSeq(BoardCards, 1, bn),
     dead_cards |-> dead_for(Range(SubSeq(HeroCards, 1, hn)) \cup Range(SubSeq(BoardCards, 1, bn))
                              \cup Range(Residual)),
     sims |-> n, opponents |-> o, hand_size |-> hn]

EquityArgs ==
    {EquityCall(2, bn, n, o) : bn \in 3..5, n \in 0..MaxSims, o \in 0..MaxOpponents}
        \cup {EquityCall(4, 5, n, 1) : n \in 0..1}

----------------------------------------------------------------------------
(* The host's calls of solve, equity and evaluate *)

\* hero Q♣ J♣ 2♦ 2♥ 3♣ on the turn A♥ K♣ J♥ 9♥, six cards left in the deck
\* (2♣ 3♦ 7♣ J♦ Q♦ K♦): the river 2♣ gives hero trips, the river K♦ a tie
SolveHero == << 40, 36, 1, 2, 4 >>
SolveBoard == << 50, 44, 38, 30 >>
SolveDeck == {0, 5, 20, 37, 41, 45}

SolveCall(stack) ==
    [op |-> "solve",
     arg |-> [format |-> 0, street |-> 2, hero_cards |-> SolveHero, board_cards |-> SolveBoard,
              dead_cards |-> dead_for(Range(SolveHero) \cup Range(SolveBoard) \cup SolveDeck),
              pot_bb100 |-> 100, hero_stack |-> stack, position |-> 0, num_players |-> 2]]

EquityCallOf(hero, board, sims) ==
    [op |-> "equity", arg |-> [hero_cards |-> hero, board_cards |-> board, sims |-> sims]]

EvaluateCall(cards) == [op |-> "evaluate", arg |-> cards]

\* the same solve call twice, with nothing or one other call before or between
Scripts ==
    {<< SolveCall(500), SolveCall(500) >>,
     << SolveCall(500), EquityCallOf(<< 40, 36 >>, << 50, 44, 38, 30, 20 >>, 1), SolveCall(500) >>,
     << SolveCall(500), SolveCall(0), SolveCall(500) >>,
     << EvaluateCall(<< 48, 44, 40, 36, 32 >>), SolveCall(500), SolveCall(500) >>}

InitCall == [op |-> "init", arg |-> << >>]

\* a flush, five ranks in several suits, and a pair
EntryHands == {<< 48, 44, 40, 36, 28 >>, << 48, 45, 42, 39, 31 >>, << 48, 49, 43, 39, 35 >>}

EntryEquity == EquityCallOf(<< 40, 36 >>, << 50, 44, 38, 30, 20 >>, 1)

\* calls with a card id of 52 or more, a board of six, or four cards
BadCalls ==
    {EvaluateCall(<< 52, 44, 40, 36, 28 >>),
     EvaluateCall(<< 48, 44, 40, 36 >>),
     EquityCallOf(<< 40, 52 >>, << 50, 44, 38, 30, 20 >>, 1),
     EquityCallOf(<< 40, 36 >>, << 50, 44, 38, 30, 20, 10 >>, 0),
     EquityCallOf(<< 40, 36 >>, << 50, 44, 38, 30, 20, 10 >>, 1),
     [SolveCall(500) EXCEPT !.arg.hero_cards = << 40, 36, 1, 2, 200 >>]}

\* the calls that build the tables
BuildCalls == {InitCall, SolveCall(500)}

\* one bad call, or an evaluate or equity call before and after another call
EntryScripts ==
    {<< c >> : c \in BadCalls}
        \cup {<< c, w, c >> : c \in {EvaluateCall(h) : h \in EntryHands} \cup {EntryEquity},
                               w \in BuildCalls \cup {EntryEquity}}

----------------------------------------------------------------------------
(* Inputs of compute_strategy *)

MaxSpr == 12
MaxStreet == 4
MaxPosition == 6
MaxStratOpponents == 3

\* stacks of about 1000 pots and more, in units of 1 / SprSteps
LargeSprs == {1999, 2000, 2985, 200000}

StrategyArgs ==
    [equity : 0..EquitySteps, eden : {EquitySteps}, spr : (0..MaxSpr) \cup LargeSprs,
     sden : {SprSteps},
     street : 0..MaxStreet, position : 0..MaxPosition, opponents : 1..MaxStratOpponents]

----------------------------------------------------------------------------
(* State machine *)

\* the threads that call init_tables at once, and the calls each makes
NumThreads == 3
MaxInitCalls == 3
Threads == 1..NumThreads

NoRun == [pc |-> "idle", deck |-> << >>, wins |-> 0, ties |-> 0, iter |-> 0, k |-> 0]
NoRng == [seed |-> 0, drawn |-> 0]

\* the statics as the process starts
TablesInit ==
    /\ INIT = "incomplete"
    /\ FLUSH_TABLE = ZeroTable
    /\ UNIQUE5_TABLE = ZeroTable
    /\ builds = 0

OnceIdle == pc = [t \in Threads |-> "idle"] /\ returns = [t \in Threads |-> 0]
HostIdle == script = << >> /\ results = << >> /\ job = "none"

EvalIdle == calls = << >> /\ ranks = << >>
OmahaIdle == omaha = [hand |-> << >>, board |-> << >>] /\ evals = << >> /\ best = << >>
McIdle == mc = << >> /\ run = NoRun /\ equity = << >> /\ rng = NoRng /\ xoshiro = << >>
StratIdle == sp = << >> /\ strategy = << >>

\* generate_flush_table() and generate_unique5_table() on the statics
flush_generated == IF FLUSH_TABLE = ZeroTable THEN FlushBuilt
                   ELSE generate_flush_table(FLUSH_TABLE)
unique5_generated == IF UNIQUE5_TABLE = ZeroTable THEN Unique5Built
                     ELSE generate_unique5_table(UNIQUE5_TABLE)

\* a whole call of init_tables with no other thread in it: the closure of
\* INIT.call_once runs if no call completed before
call_init_tables ==
    IF INIT = "incomplete"
    THEN /\ FLUSH_TABLE' = flush_generated
         /\ UNIQUE5_TABLE' = unique5_generated
         /\ INIT' = "complete"
         /\ builds' = builds + 1
    ELSE UNCHANGED tableVars

\* init(): the host calls it in between its other calls, never during one
init_tables ==
    /\ run.pc = "idle"
    /\ call_init_tables
    /\ UNCHANGED << onceVars, evalVars, omahaVars, mcVars, stratVars, hostVars >>

\* the caller's next call of evaluate_5cards
evaluate ==
    /\ Len(ranks) < Len(calls)
    /\ LET h == calls[Len(ranks) + 1]
       IN  ranks' = Append(ranks, [rank |-> evaluate_5cards(h[1], h[2], h[3], h[4], h[5]),
                                   init |-> INIT = "complete"])
    /\ UNCHANGED << tableVars, onceVars, calls, omahaVars, mcVars, stratVars, hostVars >>

\* the caller's call of evaluate_omaha
evaluate_omaha_call ==
    /\ omaha.hand # << >>
    /\ best = << >>
    /\ evals' = omaha_trace(FLUSH_TABLE, UNIQUE5_TABLE, omaha.hand, omaha.board)
    /\ best' = << [rank |-> best_of(evals'), init |-> INIT = "complete"] >>
    /\ UNCHANGED << tableVars, onceVars, evalVars, omaha, mcVars, stratVars, hostVars >>

\* monte_carlo_equity up to its loop: the deck, and the 0.5 of a deck too small;
\* used[c as usize] panics on an id out of bounds, and 5 - board_cards.len()
\* panics on a board of more than five in a build with overflow checks and
\* wraps in one without
mc_enter ==
    /\ mc # << >>
    /\ run.pc = "idle"
    /\ LET used == Range(mc.hero_cards) \cup Range(mc.board_cards) \cup Range(mc.dead_cards)
           deck == build_deck(used, 0)
           start == [pc |-> "loop", deck |-> deck, wins |-> 0, ties |-> 0, iter |-> 0, k |-> 0]
           panic == run' = [start EXCEPT !.pc = "panic", !.deck = << >>]
                        /\ UNCHANGED << equity, rng >>
           go    == IF deck_too_small(mc, deck)
                    THEN /\ run' = [start EXCEPT !.pc = "done"]
                         /\ equity' = << Half >>
                         /\ UNCHANGED rng
                    ELSE /\ run' = start
                         /\ rng' = seed_from_u64(42)
                         /\ UNCHANGED equity
       IN  IF ~used_in_bounds(used) THEN panic
           ELSE IF Len(mc.board_cards) > 5
                THEN \E overflow_checks \in BOOLEAN : IF overflow_checks THEN panic ELSE go
                ELSE go
    /\ UNCHANGED << tableVars, onceVars, evalVars, omahaVars, mc, xoshiro, stratVars, hostVars >>

\* one step of the partial Fisher-Yates shuffle, on what
\* rng.gen_range(k..deck_len) returns
mc_swap ==
    /\ run.pc = "loop"
    /\ run.iter < mc.sims
    /\ run.k < Min(total_needed(mc), Len(run.deck))
    /\ \E raw \in next_raw(rng, xoshiro, RawValues) :
           LET swap_idx == gen_range(raw, run.k, Len(run.deck))
           IN  /\ run' = [run EXCEPT !.deck = swap(run.deck, run.k, swap_idx), !.k = run.k + 1]
               /\ rng' = [rng EXCEPT !.drawn = rng.drawn + 1]
               /\ xoshiro' = drawn_stream(rng, xoshiro, raw)
    /\ UNCHANGED << tableVars, onceVars, evalVars, omahaVars, mc, equity, stratVars, hostVars >>

\* the rest of the iteration: the board, hero, the opponents and the tally;
\* full_board[i] = c panics on the sixth board card
mc_tally ==
    /\ run.pc = "loop"
    /\ run.iter < mc.sims
    /\ run.k = Min(total_needed(mc), Len(run.deck))
    /\ LET res == showdown(FLUSH_TABLE, UNIQUE5_TABLE, mc, run.deck)
           hero_wins == res[1]
           is_tie == res[2]
       IN  IF Len(mc.board_cards) > 5
           THEN run' = [run EXCEPT !.pc = "panic"]
           ELSE run' = [run EXCEPT
                           !.wins = IF hero_wins /\ ~is_tie THEN run.wins + 1 ELSE run.wins,
                           !.ties = IF ~(hero_wins /\ ~is_tie) /\ is_tie THEN run.ties + 1
                                    ELSE run.ties,
                           !.iter = run.iter + 1,
                           !.k = 0]
    /\ UNCHANGED << tableVars, onceVars, evalVars, omahaVars, mc, equity, rng, xoshiro,
                    stratVars, hostVars >>

\* the loop is over: the quotient is returned
mc_return ==
    /\ run.pc = "loop"
    /\ run.iter = mc.sims
    /\ run' = [run EXCEPT !.pc = "done"]
    /\ equity' = << equity_of(run.wins, run.ties, mc.sims) >>
    /\ UNCHANGED << tableVars, onceVars, evalVars, omahaVars, mc, rng, xoshiro, stratVars,
                    hostVars >>

\* the caller's call of compute_strategy
compute_strategy_call ==
    /\ sp # << >>
    /\ strategy = << >>
    /\ strategy' = << compute_strategy(sp) >>
    /\ UNCHANGED << tableVars, onceVars, evalVars, omahaVars, mcVars, sp, hostVars >>

\* what a call of an entry point gives the host
Ok(v) == [status |-> "ok", value |-> v]
InvalidArg == [status |-> "InvalidArg", value |-> 0]
Panic == [status |-> "panic", value |-> 0]

\* the host's next call, when it is in none
next_call == script[Len(results) + 1]
calling(op) == job = "none" /\ Len(results) < Len(script) /\ next_call.op = op

\* solve -> solve_state up to its call of monte_carlo_equity
solve_enter ==
    /\ calling("solve")
    /\ call_init_tables
    /\ mc' = solve_equity_args(next_call.arg)
    /\ job' = "solve"
    /\ UNCHANGED << onceVars, evalVars, omahaVars, run, equity, rng, xoshiro, stratVars,
                    script, results >>

\* solve_state from the return of monte_carlo_equity on
solve_return ==
    /\ job = "solve"
    /\ run.pc = "done"
    /\ results' = Append(results, Ok(solve_result(next_call.arg, equity[1])))
    /\ job' = "none"
    /\ mc' = << >>
    /\ equity' = << >>
    /\ run' = [run EXCEPT !.pc = "idle"]
    /\ UNCHANGED << tableVars, onceVars, evalVars, omahaVars, rng, xoshiro, stratVars, script >>

\* equity calling init_tables before monte_carlo_equity, as solve_state does
equity_enter_builds ==
    /\ calling("equity")
    /\ call_init_tables
    /\ mc' = equity_args(next_call.arg)
    /\ job' = "equity"
    /\ UNCHANGED << onceVars, evalVars, omahaVars, run, equity, rng, xoshiro,
                    stratVars, script, results >>

\* lib.rs equity up to its call of monte_carlo_equity
equity_enter ==
    /\ calling("equity")
    /\ mc' = equity_args(next_call.arg)
    /\ job' = "equity"
    /\ UNCHANGED << tableVars, onceVars, evalVars, omahaVars, run, equity, rng, xoshiro,
                    stratVars, script, results >>

\* lib.rs equity from the return of monte_carlo_equity on
equity_return ==
    /\ job = "equity"
    /\ run.pc = "done"
    /\ results' = Append(results, Ok(equity[1]))
    /\ job' = "none"
    /\ mc' = << >>
    /\ equity' = << >>
    /\ run' = [run EXCEPT !.pc = "idle"]
    /\ UNCHANGED << tableVars, onceVars, evalVars, omahaVars, rng, xoshiro, stratVars, script >>

\* RANK_BITS[r] and RANK_PRIMES[r] are in bounds for the rank of every card
ranks_in_bounds(cards) == \A i \in DOMAIN cards : card_rank(cards[i]) < Len(RANK_BITS)

\* lib.rs evaluate; an index out of bounds in evaluate_5cards panics
evaluate_entry ==
    /\ calling("evaluate")
    /\ LET cards == next_call.arg
       IN  results' = Append(results,
                             IF Len(cards) # 5 THEN InvalidArg
                             ELSE IF ~ranks_in_bounds(cards) THEN Panic
                             ELSE Ok(evaluate_5cards(cards[1], cards[2], cards[3], cards[4],
                                                     cards[5])))
    /\ UNCHANGED << tableVars, onceVars, evalVars, omahaVars, mcVars, stratVars, script, job >>

\* lib.rs init
init_entry ==
    /\ calling("init")
    /\ call_init_tables
    /\ results' = Append(results, Ok("ready"))
    /\ UNCHANGED << onceVars, evalVars, omahaVars, mcVars, stratVars, script, job >>

\* a panic in monte_carlo_equity unwinds out of solve or equity
entry_panic ==
    /\ job \in {"solve", "equity"}
    /\ run.pc = "panic"
    /\ results' = Append(results, Panic)
    /\ job' = "none"
    /\ mc' = << >>
    /\ run' = [run EXCEPT !.pc = "idle"]
    /\ UNCHANGED << tableVars, onceVars, evalVars, omahaVars, equity, rng, xoshiro, stratVars,
                    script >>

\* a thread entering while the closure runs does not wait
once_enter_no_wait(state) == IF state = "incomplete" THEN "flush" ELSE "return"

\* a thread enters INIT.call_once: it runs the closure, waits for the thread
\* that runs it, or finds the Once complete
once_enter(state) ==
    CASE state = "incomplete" -> "flush"
      [] state = "running" -> "wait"
      [] OTHER -> "return"

call_once(t) ==
    /\ pc[t] = "idle"
    /\ returns[t] < MaxInitCalls
    /\ LET to == once_enter(INIT)
       IN  /\ pc' = [pc EXCEPT ![t] = IF to = "return" THEN "idle" ELSE to]
           /\ returns' = [returns EXCEPT ![t] = IF to = "return" THEN returns[t] + 1
                                                ELSE returns[t]]
           /\ INIT' = IF to = "flush" THEN "running" ELSE INIT
           /\ builds' = IF to = "flush" THEN builds + 1 ELSE builds
    /\ UNCHANGED << FLUSH_TABLE, UNIQUE5_TABLE, evalVars, omahaVars, mcVars, stratVars,
                    hostVars >>

\* the closure: generate_flush_table()
closure_flush(t) ==
    /\ pc[t] = "flush"
    /\ FLUSH_TABLE' = flush_generated
    /\ pc' = [pc EXCEPT ![t] = "unique5"]
    /\ UNCHANGED << INIT, UNIQUE5_TABLE, builds, returns, evalVars, omahaVars, mcVars,
                    stratVars, hostVars >>

\* the closure: generate_unique5_table()
closure_unique5(t) ==
    /\ pc[t] = "unique5"
    /\ UNIQUE5_TABLE' = unique5_generated
    /\ pc' = [pc EXCEPT ![t] = "done"]
    /\ UNCHANGED << INIT, FLUSH_TABLE, builds, returns, evalVars, omahaVars, mcVars,
                    stratVars, hostVars >>

\* the closure has returned: the Once is complete and the call returns
once_complete(t) ==
    /\ pc[t] = "done"
    /\ INIT' = "complete"
    /\ pc' = [pc EXCEPT ![t] = "idle"]
    /\ returns' = [returns EXCEPT ![t] = returns[t] + 1]
    /\ UNCHANGED << FLUSH_TABLE, UNIQUE5_TABLE, builds, evalVars, omahaVars, mcVars,
                    stratVars, hostVars >>

\* a thread that waited sees the Once complete and returns
once_wake(t) ==
    /\ pc[t] = "wait"
    /\ INIT = "complete"
    /\ pc' = [pc EXCEPT ![t] = "idle"]
    /\ returns' = [returns EXCEPT ![t] = returns[t] + 1]
    /\ UNCHANGED << tableVars, evalVars, omahaVars, mcVars, stratVars, hostVars >>

\* evaluate_5cards on one hand
InitEval ==
    /\ TablesInit /\ OnceIdle /\ OmahaIdle /\ McIdle /\ StratIdle /\ HostIdle
    /\ calls \in {<< h >> : h \in Hands}
    /\ ranks = << >>

NextEval ==
    \/ init_tables
    \/ evaluate

SpecEval == InitEval /\ [][NextEval]_vars

\* two calls in a row: hands of the five highest ranks, and A-K-Q-J-9
PairHands ==
    {h \in Hands :
        \/ \A i \in 1..5 : card_rank(h[i]) >= 8
        \/ [i \in 1..5 |-> card_rank(h[i])] = << 12, 11, 10, 9, 7 >>}

InitPair ==
    /\ TablesInit /\ OnceIdle /\ OmahaIdle /\ McIdle /\ StratIdle /\ HostIdle
    /\ calls \in {<< a, b >> : a \in PairHands, b \in PairHands}
    /\ ranks = << >>

SpecPair == InitPair /\ [][NextEval]_vars

\* evaluate_5cards on five ids with some id repeated (A♣ K♣ Q♣ A♦ 2♣)
DupPool == {48, 44, 40, 49, 0}
DupHands == {h \in [1..5 -> DupPool] : ~Distinct(h)}

InitDup ==
    /\ TablesInit /\ OnceIdle /\ OmahaIdle /\ McIdle /\ StratIdle /\ HostIdle
    /\ calls \in {<< h >> : h \in DupHands}
    /\ ranks = << >>

SpecDup == InitDup /\ [][NextEval]_vars

\* evaluate_omaha
InitOmaha ==
    /\ TablesInit /\ OnceIdle /\ EvalIdle /\ McIdle /\ StratIdle /\ HostIdle
    /\ omaha \in OmahaArgs
    /\ evals = << >>
    /\ best = << >>

NextOmaha ==
    \/ init_tables
    \/ evaluate_omaha_call

SpecOmaha == InitOmaha /\ [][NextOmaha]_vars

\* monte_carlo_equity
InitEquity ==
    /\ TablesInit /\ OnceIdle /\ EvalIdle /\ OmahaIdle /\ StratIdle /\ HostIdle
    /\ mc \in EquityArgs
    /\ run = NoRun
    /\ equity = << >>
    /\ rng = NoRng
    /\ xoshiro = << >>

NextEquity ==
    \/ init_tables
    \/ mc_enter
    \/ mc_swap
    \/ mc_tally
    \/ mc_return

SpecEquity == InitEquity /\ [][NextEquity]_vars

\* compute_strategy
InitStrategy ==
    /\ TablesInit /\ OnceIdle /\ EvalIdle /\ OmahaIdle /\ McIdle /\ HostIdle
    /\ sp \in StrategyArgs
    /\ strategy = << >>

NextStrategy == compute_strategy_call

SpecStrategy == InitStrategy /\ [][NextStrategy]_vars

\* the host's calls of the entry points, one after the other
InitSolve ==
    /\ TablesInit /\ OnceIdle /\ EvalIdle /\ OmahaIdle /\ McIdle /\ StratIdle
    /\ script \in Scripts
    /\ results = << >>
    /\ job = "none"

NextSolve ==
    \/ solve_enter
    \/ mc_enter
    \/ mc_swap
    \/ mc_tally
    \/ mc_return
    \/ solve_return
    \/ equity_enter
    \/ equity_return
    \/ evaluate_entry

SpecSolve == InitSolve /\ [][NextSolve]_vars

\* the host's calls of all the entry points, with arguments of every kind
InitEntry ==
    /\ TablesInit /\ OnceIdle /\ EvalIdle /\ OmahaIdle /\ McIdle /\ StratIdle
    /\ script \in EntryScripts
    /\ results = << >>
    /\ job = "none"

NextEntry ==
    \/ NextSolve
    \/ init_entry
    \/ entry_panic

SpecEntry == InitEntry /\ [][NextEntry]_vars

\* threads in init_tables at once
InitOnce ==
    /\ TablesInit /\ OnceIdle /\ EvalIdle /\ OmahaIdle /\ McIdle /\ StratIdle /\ HostIdle

NextOnce ==
    \E t \in Threads :
        \/ call_once(t)
        \/ closure_flush(t)
        \/ closure_unique5(t)
        \/ once_complete(t)
        \/ once_wake(t)

SpecOnce == InitOnce /\ [][NextOnce]_vars

----------------------------------------------------------------------------
(* The rules of poker, for the claims about ranks *)

RanksOf(h) == {card_rank(h[i]) : i \in DOMAIN h}
Mult(h, r) == Cardinality({i \in DOMAIN h : card_rank(h[i]) = r})
MaxMult(h) == CHOOSE m \in 1..5 :
                  /\ \E r \in RanksOf(h) : Mult(h, r) = m
                  /\ \A r \in RanksOf(h) : Mult(h, r) <= m
OneSuit(h) == Cardinality({card_suit(h[i]) : i \in DOMAIN h}) = 1
Wheel == {12, 0, 1, 2, 3}
IsStraight(h) == RanksOf(h) = Wheel \/ \E t \in 4..12 : RanksOf(h) = (t - 4)..t

\* 1 royal flush, 2 straight flush, 3 four of a kind, 4 full house, 5 flush,
\* 6 straight, 7 three of a kind, 8 two pair, 9 one pair, 10 high card
Category(h) ==
    LET nd == Cardinality(RanksOf(h))
        mm == MaxMult(h)
    IN  CASE OneSuit(h) /\ RanksOf(h) = 8..12 -> 1
          [] OneSuit(h) /\ IsStraight(h) /\ RanksOf(h) # 8..12 -> 2
          [] mm = 4 -> 3
          [] mm = 3 /\ nd = 2 -> 4
          [] OneSuit(h) /\ ~IsStraight(h) -> 5
          [] ~OneSuit(h) /\ IsStraight(h) -> 6
          [] mm = 3 /\ nd = 3 -> 7
          [] mm = 2 /\ nd = 3 -> 8
          [] mm = 2 /\ nd = 4 -> 9
          [] OTHER -> 10

BandLo == << 1, 2, 11, 167, 323, 1600, 1610, 2468, 3326, 6186 >>
BandHi == << 1, 10, 166, 322, 1599, 1609, 2467, 3325, 6185, 7462 >>

\* the ranks of h as a base-13 number, the most repeated first and the higher
\* first among equally repeated; a straight counts by its top card
RECURSIVE KeyOf(_, _, _)
KeyOf(h, left, acc) ==
    IF left = {} THEN acc
    ELSE LET top == CHOOSE r \in left :
                        \A q \in left : Mult(h, q) * 13 + q <= Mult(h, r) * 13 + r
         IN  KeyOf(h, left \ {top}, acc * 13 + top)

Key(h) ==
    IF IsStraight(h) THEN (IF RanksOf(h) = Wheel THEN 3
                           ELSE CHOOSE t \in RanksOf(h) : \A q \in RanksOf(h) : q <= t)
    ELSE KeyOf(h, RanksOf(h), 0)

Beats(a, b) ==
    \/ Category(a) < Category(b)
    \/ Category(a) = Category(b) /\ Key(a) > Key(b)

Evaluated(n) == n \in DOMAIN ranks /\ ranks[n].init

----------------------------------------------------------------------------
(* Claims *)

\* C1: after init_tables, evaluate_5cards returns a rank in 1..7462 for every
\* hand of five distinct cards, on each of its three paths.
C1_RankInRange ==
    \A n \in DOMAIN ranks :
        ranks[n].init => 1 <= ranks[n].rank /\ ranks[n].rank <= 7462

\* 7-5-4-3-2 in mixed suits, evaluated after init, gets the last rank 7462
C1_Witness ==
    /\ Evaluated(1)
    /\ calls[1] = << 20, 13, 10, 7, 0 >>
    /\ ranks[1].rank = 7462

\* C2: after init, the rank of every hand lies in the band of its category
\* (royal flush 1, straight flush 2-10, four of a kind 11-166, full house
\* 167-322, flush 323-1599, straight 1600-1609, three of a kind 1610-2467,
\* two pair 2468-3325, one pair 3326-6185, high card 6186-7462).
C2_BandMembership ==
    \A n \in DOMAIN ranks :
        ranks[n].init =>
            /\ BandLo[Category(calls[n])] <= ranks[n].rank
            /\ ranks[n].rank <= BandHi[Category(calls[n])]

\* C3: after init, a hand that beats another under the rules of poker has the
\* strictly lower rank.
C3_Monotonic ==
    (Len(calls) = 2 /\ Evaluated(1) /\ Evaluated(2) /\ Beats(calls[1], calls[2]))
        => ranks[1].rank < ranks[2].rank

\* C4: after init, evaluate_omaha on the hand [48,49,50,40,36,32] and the board
\* [51,44,38,30,20] returns a rank below 200.
C4_QuadAces ==
    (/\ omaha = [hand |-> << 48, 49, 50, 40, 36, 32 >>, board |-> << 51, 44, 38, 30, 20 >>]
     /\ best # << >>
     /\ best[1].init)
        => best[1].rank < 200

Subsets(S, n) == {T \in SUBSET S : Cardinality(T) = n}

\* the calls of evaluate_5cards whose hand cards are H and board cards are B
CallsFor(H, B) ==
    {k \in DOMAIN evals :
        /\ {evals[k].cards[1], evals[k].cards[2]} = H
        /\ {evals[k].cards[3], evals[k].cards[4], evals[k].cards[5]} = B}

\* C5: for a hand of n in {4,5,6} distinct cards and a board of 5, evaluate_omaha
\* calls evaluate_5cards C(n,2)*10 times, once for each pairing of two hand cards
\* with three board cards, every call on exactly two hand cards and three board
\* cards, and it returns the least of the ranks of these calls.
C5_AllPairings ==
    best # << >> =>
        LET n == Len(omaha.hand)
        IN  /\ Len(evals) = ((n * (n - 1)) \div 2) * 10
            /\ \A H \in Subsets(Range(omaha.hand), 2), B \in Subsets(Range(omaha.board), 3) :
                   Cardinality(CallsFor(H, B)) = 1
            /\ \A k \in DOMAIN evals :
                   /\ Cardinality({evals[k].cards[1], evals[k].cards[2]}
                                      \cap Range(omaha.hand)) = 2
                   /\ Cardinality({evals[k].cards[3], evals[k].cards[4], evals[k].cards[5]}
                                      \cap Range(omaha.board)) = 3
            /\ \E k \in DOMAIN evals : best[1].rank = evals[k].rank
            /\ \A k \in DOMAIN evals : best[1].rank <= evals[k].rank

C5_Witness ==
    /\ best # << >>
    /\ best[1].init
    /\ Len(omaha.hand) = 6
    /\ Len(evals) = 150
    /\ best[1].rank = 1600

\* the monte_carlo_equity result is in [0,1]
InUnit(v) == v.den > 0 /\ 0 <= v.num /\ v.num <= v.den

\* C6: the equity monte_carlo_equity returns is a number v with 0 <= v <= 1,
\* for every value of sims and opponents.
C6_EquityInUnit == equity # << >> => InUnit(equity[1])

\* C7: two solve calls with the same params return the same SolveResult,
\* whatever calls ran before or between them.
C7_Deterministic ==
    \A i, j \in DOMAIN results :
        (script[i].op = "solve" /\ script[i] = script[j]) => results[i] = results[j]

\* two equal solve calls around an equity call, after a simulation hero won
C7_Witness ==
    /\ Len(results) = 3
    /\ script[1].op = "solve"
    /\ script[3] = script[1]
    /\ script[2].op = "equity"
    /\ results[1].value.equity = [num |-> 2, den |-> 2]
    /\ results[3] = results[1]
    /\ rng.drawn = 6

Built == FLUSH_TABLE = FlushBuilt /\ UNIQUE5_TABLE = Unique5Built

\* C8: under any interleaving of the callers of init_tables the closure runs
\* once, no call returns before both tables are built, and every later call
\* leaves the tables as they are.
C8_OnceOnly ==
    /\ builds <= 1
    /\ (\E t \in Threads : returns[t] > 0) => (builds = 1 /\ INIT = "complete" /\ Built)
    /\ INIT = "complete" => Built

\* one thread ran the closure, another waited for it and returned, and a
\* third call found the Once complete
C8_Witness ==
    /\ builds = 1
    /\ \E t, u \in Threads : t # u /\ returns[t] = MaxInitCalls /\ returns[u] > 0
    /\ Built

\* C9: the frequency vector compute_strategy returns has every entry in [0,1]
\* and its five entries sum to 1, in the commitment branch and in the
\* normalised standard branch.
C9_FrequenciesSumToOne ==
    strategy # << >> =>
        LET fr == strategy[1].freq
        IN  /\ fr.den > 0
            /\ \A i \in 1..5 : 0 <= fr.num[i] /\ fr.num[i] <= fr.den
            /\ Sum5(fr.num) = fr.den

\* a river call in the standard branch, where the bucket sums to more than 1
C9_Witness ==
    /\ strategy # << >>
    /\ sp.spr >= 2 * sp.sden
    /\ sp.street = 3
    /\ sp.equity = 85
    /\ Sum5(bucket(sp)) > 10000
    /\ strategy[1].freq.den = Sum5(bucket(sp))

\* equity + pos_bonus - multi_way_penalty, clamped to [0,1], exceeds 0.40
Above40(a) ==
    LET raw == 100 * a.equity + (pos_bonus(a.position) - multi_way_penalty(a.opponents)) * a.eden
    IN  (IF raw < 0 THEN 0 ELSE IF raw > 100 * a.eden THEN 100 * a.eden ELSE raw) > 40 * a.eden

\* the frequencies fr are exactly v / 100
FreqIs(fr, v) == \A i \in 1..5 : fr.num[i] * 100 = v[i] * fr.den

\* C10: whenever SPR < 2, compute_strategy returns action 4 with frequencies
\* [0,0,0,0.10,0.90] and raise amount 0 if the adjusted equity exceeds 0.40, and
\* action 0 with frequencies [0.85,0,0.15,0,0] and raise amount 0 otherwise,
\* whatever the street.
C10_Commitment ==
    (strategy # << >> /\ sp.spr < 2 * sp.sden) =>
        IF Above40(sp)
        THEN /\ strategy[1].action = 4
             /\ FreqIs(strategy[1].freq, << 0, 0, 0, 10, 90 >>)
             /\ strategy[1].raise_amount = 0
        ELSE /\ strategy[1].action = 0
             /\ FreqIs(strategy[1].freq, << 85, 0, 15, 0, 0 >>)
             /\ strategy[1].raise_amount = 0

\* compute_strategy(0.55, 1.5, turn, BTN, 1)
C10_Witness ==
    /\ strategy # << >>
    /\ sp.equity * 100 = 55 * sp.eden
    /\ sp.spr * 2 = 3 * sp.sden
    /\ sp.street = 2
    /\ sp.position = 0
    /\ sp.opponents = 1
    /\ strategy[1].action = 4

\* C11: no call of evaluate, equity or solve panics: a card id of 52 or more,
\* a board of more than five cards or a wrong card count is reported as an
\* argument error and never reaches the indexing code.
C11_NoPanic ==
    /\ run.pc # "panic"
    /\ \A i \in DOMAIN results : results[i].status # "panic"

\* C12: after init, evaluate_5cards returns a value in 1..7462 for every five
\* card ids in 0..51 among which some id is repeated.
C12_DupInRange ==
    \A n \in DOMAIN ranks :
        (ranks[n].init /\ ~Distinct(calls[n])) =>
            (1 <= ranks[n].rank /\ ranks[n].rank <= 7462)

\* the ranks of hero and of the o-th opponent on the deck as shuffled
HeroRank == evaluate_omaha(mc.hero_cards, full_board(mc, run.deck))
VillainRank(o) ==
    evaluate_omaha(SubSeq(run.deck, board_needed(mc) + o * mc.hand_size + 1,
                          board_needed(mc) + (o + 1) * mc.hand_size),
                   full_board(mc, run.deck))
Opponents == 0..(mc.opponents - 1)
Beaten == \E o \in Opponents : VillainRank(o) < HeroRank
Tied == \E o \in Opponents : VillainRank(o) = HeroRank

\* an iteration of the loop ends
IterationEnds == run.pc = "loop" /\ run'.pc = "loop" /\ run'.iter = run.iter + 1

\* the loop is left with the result
LoopEnds == run.pc = "loop" /\ run'.pc = "done"

\* C13: each iteration adds one to wins iff hero's rank is strictly better
\* than every opponent's, one to ties iff no opponent is strictly better and
\* some opponent's rank equals hero's, and nothing if some opponent is strictly
\* better, also when an opponent evaluated before tied; the result is
\* (wins + ties / 2) / sims.
C13_Tally ==
    [][/\ IterationEnds =>
            /\ run'.wins = run.wins + (IF ~Beaten /\ ~Tied THEN 1 ELSE 0)
            /\ run'.ties = run.ties + (IF ~Beaten /\ Tied THEN 1 ELSE 0)
       /\ (LoopEnds /\ mc.sims > 0) =>
            equity' = << [num |-> 2 * run.wins + run.ties, den |-> 2 * mc.sims] >>]_vars

\* after an iteration with two opponents where the first tied hero and the
\* second beat hero, neither counter has moved
C13_Witness ==
    /\ run.pc = "loop"
    /\ run.iter = 1
    /\ run.k = 0
    /\ mc.opponents = 2
    /\ INIT = "complete"
    /\ VillainRank(0) = HeroRank
    /\ VillainRank(1) < HeroRank
    /\ run.wins = 0
    /\ run.ties = 0

\* the ids in 0..51 that are not hero's, on the board or dead
ResidualSet ==
    (0..51) \ (Range(mc.hero_cards) \cup Range(mc.board_cards) \cup Range(mc.dead_cards))

\* the cards an iteration deals: the board completion and the opponents' hands
Dealt == SubSeq(run.deck, 1, total_needed(mc))

\* the deck holds every residual card once
IsPermutation ==
    /\ Len(run.deck) = Cardinality(ResidualSet)
    /\ Range(run.deck) = ResidualSet

\* the dealt cards are pairwise distinct and none is hero's, on the board or dead
DealtDisjoint ==
    /\ \A i, j \in 1..total_needed(mc) : i # j => Dealt[i] # Dealt[j]
    /\ Range(Dealt) \subseteq ResidualSet

\* a step of the shuffle exchanges deck[k] with deck[j] for some j in k..|deck|-1
SwapInSuffix ==
    \E j \in run.k..(Len(run.deck) - 1) :
        /\ run'.deck[run.k + 1] = run.deck[j + 1]
        /\ run'.deck[j + 1] = run.deck[run.k + 1]
        /\ \A i \in 1..Len(run.deck) :
               (i # run.k + 1 /\ i # j + 1) => run'.deck[i] = run.deck[i]

\* C14: at every point of every iteration the deck is a permutation of the
\* residual set; each swap uses an index in k..|deck|-1; the board completion
\* and the opponents' hands of an iteration are pairwise disjoint and disjoint
\* from the hero, board and dead cards.
C14_DeckPermutation ==
    /\ [](run.pc = "loop" => (IsPermutation /\ DealtDisjoint))
    /\ [][(run.pc = "loop" /\ run'.pc = "loop" /\ run'.k = run.k + 1) =>
              (Len(run'.deck) = Len(run.deck) /\ SwapInSuffix)]_vars

\* in the second iteration, once its cards are dealt, the deck is no longer in
\* ascending order
C14_Witness ==
    /\ run.pc = "loop"
    /\ run.iter = 1
    /\ run.k = total_needed(mc)
    /\ mc.opponents = 2
    /\ run.deck # build_deck((0..51) \ ResidualSet, 0)
    /\ IsPermutation

\* entry i (from 1) of the frequencies fr is maximal
IsMaximal(fr, i) == \A j \in 1..5 : fr.num[j] <= fr.num[i]

\* no two entries of the frequencies fr share the maximum
MaximumIsUnique ==
    strategy # << >> =>
        \A i, j \in 1..5 :
            (IsMaximal(strategy[1].freq, i) /\ IsMaximal(strategy[1].freq, j)) => i = j

\* C15: the action compute_strategy returns is an index of a maximal entry of
\* the returned frequencies, and the lowest index among the maximal entries.
C15_ArgMax ==
    strategy # << >> =>
        LET fr == strategy[1].freq
            a  == strategy[1].action + 1
        IN  /\ a \in 1..5
            /\ IsMaximal(fr, a)
            /\ \A j \in 1..5 : IsMaximal(fr, j) => a <= j

\* preflop in the strong region, where raise (0.425) is just above call (0.40)
C15_Witness ==
    /\ strategy # << >>
    /\ sp.spr >= 2 * sp.sden
    /\ sp.street = 0
    /\ strategy[1].freq.num = << 0, 1000, 4000, 4250, 0 >>
    /\ strategy[1].action = 3

\* equity + pos_bonus - multi_way_penalty, clamped to [0,1], exceeds 0.70
Above70(a) ==
    LET raw == 100 * a.equity + (pos_bonus(a.position) - multi_way_penalty(a.opponents)) * a.eden
    IN  (IF raw < 0 THEN 0 ELSE IF raw > 100 * a.eden THEN 100 * a.eden ELSE raw) > 70 * a.eden

\* the sizing of the flop, the turn and the river, in hundredths
PostflopSizing(a) ==
    CASE a.street = 1 -> 67
      [] a.street = 2 -> 75
      [] a.street = 3 -> IF Above70(a) THEN 100 ELSE 50

\* sizing x SPR x 100, truncated
Truncated(a) == (PostflopSizing(a) * a.spr) \div a.sden

\* C16: with SPR >= 2 the raise amount is 0 exactly when neither the raise nor
\* the all-in frequency exceeds 0.10; otherwise it is 300 preflop and, on the
\* flop, turn and river, the truncation of sizing x SPR x 100 held to 99999 at
\* most; it never exceeds 99999.
C16_RaiseAmount ==
    (strategy # << >> /\ sp.spr >= 2 * sp.sden) =>
        LET fr  == strategy[1].freq
            amt == strategy[1].raise_amount
        IN  /\ (amt = 0) <=> ~(10 * fr.num[4] > fr.den \/ 10 * fr.num[5] > fr.den)
            /\ (amt # 0 /\ sp.street = 0) => amt = 300
            /\ (amt # 0 /\ sp.street \in 1..3) =>
                   amt = (IF Truncated(sp) <= 99999 THEN Truncated(sp) ELSE 99999)
            /\ amt <= 99999

\* a river raise with a stack of 1000 pots: sizing 1.0 gives 100000, returned
\* as 99999
C16_Witness ==
    /\ strategy # << >>
    /\ sp.street = 3
    /\ sp.spr = 1000 * sp.sden
    /\ Above70(sp)
    /\ Truncated(sp) = 100000
    /\ strategy[1].raise_amount = 99999

\* an init or solve call was completed before the i-th call of the script
BuiltBefore(i) ==
    \E j \in 1..(i - 1) :
        j \in DOMAIN results /\ script[j].op \in {"init", "solve"} /\ results[j].status = "ok"

\* an init or solve call was made before the i-th call of the script
RanBefore(i) ==
    \E j \in 1..(i - 1) : j \in DOMAIN results /\ script[j].op \in {"init", "solve"}

TablesZero == INIT = "incomplete" /\ FLUSH_TABLE = ZeroTable /\ UNIQUE5_TABLE = ZeroTable
TablesBuilt == INIT = "complete" /\ FLUSH_TABLE = FlushBuilt /\ UNIQUE5_TABLE = Unique5Built

\* a flush, or five distinct ranks
ReadsTable(cards) == OneSuit(cards) \/ Cardinality(RanksOf(cards)) = 5

\* the i-th call is an evaluate call that returned a rank
EvaluateDone(i) ==
    i \in DOMAIN results /\ script[i].op = "evaluate" /\ results[i].status = "ok"

\* C17: evaluate and equity never call init_tables, only init and solve do: the
\* tables change in no step but the start of an init or solve call; while no
\* init or solve has run the tables are all zero, evaluate returns 0 for
\* every flush and every hand of five distinct ranks and the classifier's
\* rank for a paired hand; once an init or solve was completed every later
\* evaluate and equity call reads the built tables.
C17_OnlyInitAndSolveBuild ==
    /\ [][tableVars' # tableVars =>
              (job = "none" /\ Len(results) < Len(script) /\ next_call.op \in {"init", "solve"})]_vars
    /\ [](BuiltBefore(Len(results) + 1) => TablesBuilt)
    /\ []((~RanBefore(Len(results) + 1) /\ job # "solve") => TablesZero)
    /\ [](\A i \in DOMAIN results :
              EvaluateDone(i) =>
                  LET cards == script[i].arg
                      built == evaluate_with(FlushBuilt, Unique5Built, cards[1], cards[2],
                                             cards[3], cards[4], cards[5])
                  IN  IF BuiltBefore(i) THEN results[i].value = built /\ built >= 1
                      ELSE IF RanBefore(i) THEN TRUE
                      ELSE IF ReadsTable(cards) THEN results[i].value = 0
                      ELSE results[i].value = built /\ built >= 1)

\* evaluate on the flush A K Q J 9 of clubs gave 0, equity ran, evaluate gave 0
\* again
C17_Witness ==
    /\ Len(script) = 3
    /\ Len(results) = 3
    /\ script[1] = EvaluateCall(<< 48, 44, 40, 36, 28 >>)
    /\ script[2].op = "equity"
    /\ results[1] = Ok(0)
    /\ results[2].status = "ok"
    /\ results[3] = Ok(0)
    /\ TablesZero

=============================================================================
